---- MODULE Spec2Model ----
(***************************************************************************)
(* Model of sync_books.py: the matching core that reconciles the read      *)
(* events of two reading logs (Book Tracker and Goodreads).                *)
(*                                                                         *)
(* Text is a sequence of one-character strings, so that the normalizers    *)
(* are computed character by character as the code computes them.  A date  *)
(* is the number of days since January 1st of a non-leap year; an absent   *)
(* date (Python None) is NoDate.                                           *)
(***************************************************************************)
EXTENDS Integers, Sequences, FiniteSets, TLC

VARIABLES
    pc,                      \* position of the running function
    args_tolerance_days,     \* main: args.tolerance_days
    booktracker_reads,       \* main: list loaded from the Book Tracker export
    goodreads_reads,         \* main: list loaded from the Goodreads export
    missing_from_goodreads,  \* main: result of the first find_missing_reads run
    missing_from_booktracker,\* main: result of the second find_missing_reads run
    source_reads,            \* find_missing_reads: parameter
    target_reads,            \* find_missing_reads: parameter
    missing,                 \* find_missing_reads: the list being built
    idx,                     \* find_missing_reads: position of the for loop
    match,                   \* find_missing_reads: what find_matching_read returned last
    event_a,                 \* a dates_match call: one event
    event_b,                 \* a dates_match call: the other event
    tolerance,               \* a dates_match call: its tolerance_days argument
    matched_ab,              \* dates_match(event_a, event_b, tolerance)
    matched_ba               \* dates_match(event_b, event_a, tolerance)

vars == <<pc, args_tolerance_days, booktracker_reads, goodreads_reads,
          missing_from_goodreads, missing_from_booktracker,
          source_reads, target_reads, missing, idx, match,
          event_a, event_b, tolerance, matched_ab, matched_ba>>

----------------------------------------------------------------------------
(* Characters                                                              *)

LowerLetters ==
    <<"a","b","c","d","e","f","g","h","i","j","k","l","m",
      "n","o","p","q","r","s","t","u","v","w","x","y","z">>

UpperLetters ==
    <<"A","B","C","D","E","F","G","H","I","J","K","L","M",
      "N","O","P","Q","R","S","T","U","V","W","X","Y","Z">>

Digits == {"0","1","2","3","4","5","6","7","8","9"}

Range(s) == {s[i] : i \in DOMAIN s}

\* str.lower() on one character
ToLower(c) ==
    IF \E i \in DOMAIN UpperLetters : UpperLetters[i] = c
    THEN LowerLetters[CHOOSE i \in DOMAIN UpperLetters : UpperLetters[i] = c]
    ELSE c

\* the regex class \w
IsWordChar(c) == c \in Range(LowerLetters) \cup Range(UpperLetters) \cup Digits \cup {"_"}

\* the regex class \s
IsSpace(c) == c \in {" ", "\t"}

\* str.lower()
Lowered(text) == [i \in DOMAIN text |-> ToLower(text[i])]

\* str.strip()
RECURSIVE LStrip(_)
LStrip(text) ==
    IF text # <<>> /\ IsSpace(Head(text)) THEN LStrip(Tail(text)) ELSE text

RECURSIVE RStrip(_)
RStrip(text) ==
    IF text # <<>> /\ IsSpace(text[Len(text)])
    THEN RStrip(SubSeq(text, 1, Len(text) - 1))
    ELSE text

Strip(text) == RStrip(LStrip(text))

\* re.sub(r'\s+', ' ', text)
RECURSIVE CollapseSpaces(_)
CollapseSpaces(text) ==
    IF text = <<>> THEN <<>>
    ELSE IF IsSpace(Head(text))
         THEN <<" ">> \o CollapseSpaces(LStrip(text))
         ELSE <<Head(text)>> \o CollapseSpaces(Tail(text))

\* needle in text
Contains(text, needle) ==
    \E i \in 1..(Len(text) - Len(needle) + 1) :
        SubSeq(text, i, i + Len(needle) - 1) = needle

\* text.startswith(prefix)
StartsWith(text, prefix) ==
    /\ Len(prefix) <= Len(text)
    /\ SubSeq(text, 1, Len(prefix)) = prefix

\* text.split(sep)[0]
BeforeFirst(text, sep) ==
    IF sep \in Range(text)
    THEN SubSeq(text, 1, (CHOOSE i \in DOMAIN text :
                             /\ text[i] = sep
                             /\ \A j \in 1..(i - 1) : text[j] # sep) - 1)
    ELSE text

\* "".join(text.split(sep)[1:]) when text holds sep exactly once
AfterFirst(text, sep) ==
    SubSeq(text, Len(BeforeFirst(text, sep)) + 2, Len(text))

CountOf(text, c) == Cardinality({i \in DOMAIN text : text[i] = c})

----------------------------------------------------------------------------
(* Normalizer                                                              *)

normalize_text(text) ==
    IF text = <<>> THEN <<>>
    ELSE Strip(CollapseSpaces(
             SelectSeq(Lowered(text), LAMBDA c : IsWordChar(c) \/ IsSpace(c))))

\* the body of a parenthetical holds '#' followed by a digit: [^)]*#\d+[^)]*
HasNumberSign(body) ==
    \E i \in 1..(Len(body) - 1) : body[i] = "#" /\ body[i + 1] \in Digits

SeriesWords ==
    { <<"s","e","r","i","e","s">>, <<"s","a","g","a">>,
      <<"t","r","i","l","o","g","y">>, <<"b","o","o","k">>,
      <<"v","o","l","u","m","e">>, <<"#">> }

\* [^)]*(?:series|saga|trilogy|book|volume|#)[^)]* with re.IGNORECASE
HasSeriesWord(body) == \E w \in SeriesWords : Contains(Lowered(body), w)

\* the test on the body of the parenthetical: of the first re.sub when
\* numbered, of the second one otherwise
BodyOK(body, numbered) ==
    IF numbered THEN HasNumberSign(body) ELSE HasSeriesWord(body)

\* title[p:] matches \s*\( body \)\s*$ with a body that holds no ')'
\* and satisfies BodyOK
TrailingParenAt(title, p, numbered) ==
    \E a \in p..Len(title) : \E b \in (a + 1)..Len(title) :
        /\ \A i \in p..(a - 1) : IsSpace(title[i])
        /\ title[a] = "("
        /\ title[b] = ")"
        /\ \A i \in (a + 1)..(b - 1) : title[i] # ")"
        /\ \A i \in (b + 1)..Len(title) : IsSpace(title[i])
        /\ BodyOK(SubSeq(title, a + 1, b - 1), numbered)

\* re.sub(r'\s*\( body \)\s*$', '', title): the leftmost match is removed
StripTrailingParen(title, numbered) ==
    LET starts == {p \in DOMAIN title : TrailingParenAt(title, p, numbered)}
    IN  IF starts = {} THEN title
        ELSE SubSeq(title, 1,
                    (CHOOSE p \in starts : \A q \in starts : p <= q) - 1)

normalize_title(title) ==
    IF title = <<>> THEN <<>>
    ELSE normalize_text(
             StripTrailingParen(
                 StripTrailingParen(BeforeFirst(title, ":"), TRUE),
                 FALSE))

normalize_author(author) ==
    IF author = <<>> THEN <<>>
    ELSE IF /\ "," \in Range(author)
            /\ " " \notin Range(BeforeFirst(author, ","))
            /\ CountOf(author, ",") = 1
         THEN normalize_text(Strip(AfterFirst(author, ",")) \o <<" ">>
                             \o Strip(BeforeFirst(author, ",")))
         ELSE normalize_text(author)

----------------------------------------------------------------------------
(* Read events                                                             *)

\* None in the fields read_date and start_date
NoDate == -1

\* days before the first of each month, January to April, in a non-leap year
DaysBeforeMonth == <<0, 31, 59, 90>>

\* datetime(year, month, day) as a day number
Date(month, day) == DaysBeforeMonth[month] + day - 1

ReadInstance(title, author, isbn10, isbn13, read_date, start_date) ==
    [title |-> title, author |-> author, isbn10 |-> isbn10, isbn13 |-> isbn13,
     read_date |-> read_date, start_date |-> start_date]

\* (isbn13, isbn10, title_author, normalized_title)
get_book_key(read) ==
    LET norm_title == normalize_title(read.title)
        norm_author == normalize_author(read.author)
        title_author == norm_title \o <<"|">> \o norm_author
    IN  <<read.isbn13, read.isbn10, title_author, norm_title>>

NoText == <<>>

\* The read events the lists are drawn from.
Universe ==
    { \* a Book Tracker row with a reading period
      ReadInstance(<<"A","b","!">>, <<"D","o","e",",","J","o">>,
                   "", "978", Date(1, 10), Date(1, 1)),
      \* the same book under a longer title, finished 36 days later
      ReadInstance(<<"A","b","!"," ","C","d">>, <<"J","o"," ","D","o","e">>,
                   "", "", Date(2, 15), NoDate),
      \* the same ISBN-13 under another title
      ReadInstance(<<"X","y"," ","(","Z",","," ","#","1",")">>,
                   <<"A","l"," ","R","o","e">>,
                   "038", "978", Date(1, 10), NoDate),
      \* the same ISBN-10, no dates
      ReadInstance(<<"x","y",":"," ","b">>, <<"R","o","e",",","A","l">>,
                   "038", "", NoDate, NoDate),
      \* rows with no text and no ISBN
      ReadInstance(NoText, NoText, "", "", Date(1, 1), NoDate),
      ReadInstance(NoText, NoText, "", "", Date(1, 31), NoDate),
      \* a row whose reading starts 61 days after it ends
      ReadInstance(<<"A","b","!">>, <<"D","o","e",",","J","o">>,
                   "", "978", Date(1, 1), Date(3, 3)),
      \* another book, no ISBN
      ReadInstance(<<"Q","r">>, <<"A","l"," ","R","o","e">>,
                   "", "", Date(1, 10), NoDate),
      \* later reads of the first book
      ReadInstance(<<"A","b","!">>, <<"J","o"," ","D","o","e">>,
                   "", "978", Date(3, 3), NoDate),
      ReadInstance(<<"a","b">>, <<"J","o"," ","D","o","e">>,
                   "", "", Date(1, 1), NoDate),
      \* other ISBNs, same title and author
      ReadInstance(<<"X","y">>, <<"A","l"," ","R","o","e">>,
                   "039", "979", NoDate, NoDate),
      \* a series annotation and an author field with two commas
      ReadInstance(<<"A","b"," ","(","S","a","g","a",")">>,
                   <<"D","o","e",",","J","o",",","J","r">>,
                   "", "", Date(2, 15), NoDate),
      \* a reading period that starts 36 days after another read's end
      ReadInstance(<<"Q","r">>, <<"R","o","e",",","A","l">>,
                   "", "", Date(3, 3), Date(2, 15)),
      \* a row with a start date only
      ReadInstance(<<"x","y">>, <<"A","l"," ","R","o","e">>,
                   "038", "", NoDate, Date(3, 3)) }

\* get_book_key(e) of every event of Universe, evaluated once
BookKeys == [e \in Universe |-> get_book_key(e)]

\* normalize_author(e.author) of every event of Universe, evaluated once
NormAuthors == [e \in Universe |-> normalize_author(e.author)]

\* get_book_key(read)
KeyOf(read) ==
    IF read \in Universe THEN BookKeys[read] ELSE get_book_key(read)

\* normalize_author(read.author)
AuthorOf(read) ==
    IF read \in Universe THEN NormAuthors[read]
    ELSE normalize_author(read.author)

----------------------------------------------------------------------------
(* Date Range Matcher                                                      *)

\* the default of the parameter tolerance_days, and of --tolerance-days
DefaultToleranceDays == 30

\* x or y, for two optional dates (a datetime is always truthy)
OrDate(x, y) == IF x # NoDate THEN x ELSE y

\* dates_match with the second comparison of the overlap test left out
dates_match_OneSided(read1, read2, tolerance_days) ==
    LET r1_start == OrDate(read1.start_date, read1.read_date)
        r2_start == OrDate(read2.start_date, read2.read_date)
        r2_end == OrDate(read2.read_date, read2.start_date)
    IN  \/ r1_start = NoDate
        \/ r2_start = NoDate
        \/ r1_start - tolerance_days <= r2_end + tolerance_days

\* dates_match with only the start of each range moved by the tolerance
dates_match_SingleSlack(read1, read2, tolerance_days) ==
    LET r1_start == OrDate(read1.start_date, read1.read_date)
        r1_end == OrDate(read1.read_date, read1.start_date)
        r2_start == OrDate(read2.start_date, read2.read_date)
        r2_end == OrDate(read2.read_date, read2.start_date)
    IN  \/ r1_start = NoDate
        \/ r2_start = NoDate
        \/ /\ r1_start - tolerance_days <= r2_end
           /\ r2_start - tolerance_days <= r1_end

dates_match(read1, read2, tolerance_days) ==
    IF /\ read1.read_date = NoDate /\ read1.start_date = NoDate
       /\ read2.read_date = NoDate /\ read2.start_date = NoDate
    THEN TRUE
    ELSE LET r1_start == OrDate(read1.start_date, read1.read_date)
             r1_end == OrDate(read1.read_date, read1.start_date)
             r2_start == OrDate(read2.start_date, read2.read_date)
             r2_end == OrDate(read2.read_date, read2.start_date)
         IN  IF r1_start = NoDate \/ r2_start = NoDate
             THEN TRUE
             ELSE LET r1_start_expanded == r1_start - tolerance_days
                      r1_end_expanded == r1_end + tolerance_days
                      r2_start_expanded == r2_start - tolerance_days
                      r2_end_expanded == r2_end + tolerance_days
                  IN  /\ r1_start_expanded <= r2_end_expanded
                      /\ r2_start_expanded <= r1_end_expanded

----------------------------------------------------------------------------
(* Record Matcher                                                          *)

\* IsbnRule without the two truthiness tests
IsbnRule_AllowEmpty(read_isbn, other_isbn) == read_isbn = other_isbn

\* "Match by ISBN-13" and "Match by ISBN-10": both non-empty and equal
IsbnRule(read_isbn, other_isbn) ==
    read_isbn # "" /\ other_isbn # "" /\ read_isbn = other_isbn

\* "Match by title+author (exact match)", on the two title_author keys
TitleAuthorRule(read_title_author, other_title_author) ==
    /\ read_title_author # <<>>
    /\ other_title_author # <<>>
    /\ read_title_author = other_title_author

\* PrefixRule that tests the prefix in one direction only
PrefixRule_OneWay(read, other) ==
    /\ KeyOf(read)[4] # <<>>
    /\ KeyOf(other)[4] # <<>>
    /\ AuthorOf(read) # <<>>
    /\ AuthorOf(read) = AuthorOf(other)
    /\ StartsWith(KeyOf(read)[4], KeyOf(other)[4])

\* "Match by title prefix + same author"
PrefixRule(read, other) ==
    /\ KeyOf(read)[4] # <<>>
    /\ KeyOf(other)[4] # <<>>
    /\ LET read_author == AuthorOf(read)
           other_author == AuthorOf(other)
       IN  /\ read_author # <<>>
           /\ other_author # <<>>
           /\ read_author = other_author
           /\ \/ StartsWith(KeyOf(read)[4], KeyOf(other)[4])
              \/ StartsWith(KeyOf(other)[4], KeyOf(read)[4])

\* the if/elif chain that sets book_matches: the number of the branch that
\* sets it, 0 when none does
IdentityRule(read, other) ==
    LET read_key == KeyOf(read)
        other_key == KeyOf(other)
    IN  IF IsbnRule(read_key[1], other_key[1]) THEN 1
        ELSE IF IsbnRule(read_key[2], other_key[2]) THEN 2
        ELSE IF TitleAuthorRule(read_key[3], other_key[3]) THEN 3
        ELSE IF PrefixRule(read, other) THEN 4
        ELSE 0

book_matches(read, other) == IdentityRule(read, other) # 0

\* "if book_matches and dates_match(read, other)": the tolerance argument is
\* not passed, so the parameter takes its default
Accepts(read, other) ==
    book_matches(read, other) /\ dates_match(read, other, DefaultToleranceDays)

\* return None
NoMatch == 0

\* ScanFrom that keeps the last accepted candidate instead of returning
\* at the first
ScanFrom_Last(read, other_reads, i) ==
    LET hits == {j \in i..Len(other_reads) : Accepts(read, other_reads[j])}
    IN  IF hits = {} THEN NoMatch
        ELSE CHOOSE j \in hits : \A k \in hits : k <= j

\* the for loop over other_reads, from position i on: the position of the
\* candidate returned, NoMatch for None
RECURSIVE ScanFrom(_, _, _)
ScanFrom(read, other_reads, i) ==
    IF i > Len(other_reads) THEN NoMatch
    ELSE IF Accepts(read, other_reads[i]) THEN i
    ELSE ScanFrom(read, other_reads, i + 1)

\* find_matching_read whose loop starts at the second candidate
find_matching_read_SkipFirst(read, other_reads) == ScanFrom(read, other_reads, 2)

find_matching_read(read, other_reads) == ScanFrom(read, other_reads, 1)

----------------------------------------------------------------------------
(* Set Difference Engine                                                   *)

\* an iteration that does not append an event the list already holds
AfterIteration_NoDuplicates(missing_so_far, read, m) ==
    IF m = NoMatch /\ read \notin Range(missing_so_far)
    THEN Append(missing_so_far, read)
    ELSE missing_so_far

\* one iteration of the for loop of find_missing_reads: the list missing
\* after it, m being what find_matching_read returned for read
AfterIteration(missing_so_far, read, m) ==
    IF m = NoMatch THEN Append(missing_so_far, read) ELSE missing_so_far

----------------------------------------------------------------------------
(* Inputs                                                                  *)

\* the longest two lists handed to find_missing_reads, taken together
MaxReads == 3

RECURSIVE SeqsOfLen(_, _)
SeqsOfLen(S, n) ==
    IF n = 0 THEN {<<>>}
    ELSE {Append(s, e) : s \in SeqsOfLen(S, n - 1), e \in S}

\* the pairs of lists over S and T with at most MaxReads events in all
ListPairs(S, T) ==
    UNION { SeqsOfLen(S, a) \X SeqsOfLen(T, b) :
              <<a, b>> \in {ab \in (0..MaxReads) \X (0..MaxReads) :
                               ab[1] + ab[2] <= MaxReads} }

\* load_booktracker_csv keeps the first "Lastname,Firstname" pair of authors
BooktrackerRows == {e \in Universe : CountOf(e.author, ",") <= 1}

\* load_goodreads_csv: start_date=None
GoodreadsRows == {e \in Universe : e.start_date = NoDate}

\* the values of --tolerance-days the runs are started with
ToleranceArgs == {0, DefaultToleranceDays}

----------------------------------------------------------------------------
(* find_missing_reads, called on any two lists                             *)

NoEvent == ReadInstance(NoText, NoText, "", "", NoDate, NoDate)

IdleMain ==
    /\ args_tolerance_days = DefaultToleranceDays
    /\ booktracker_reads = <<>>
    /\ goodreads_reads = <<>>
    /\ missing_from_goodreads = <<>>
    /\ missing_from_booktracker = <<>>

IdleDates ==
    /\ event_a = NoEvent
    /\ event_b = NoEvent
    /\ tolerance = DefaultToleranceDays
    /\ matched_ab = FALSE
    /\ matched_ba = FALSE

IdleLoop ==
    /\ source_reads = <<>>
    /\ target_reads = <<>>
    /\ missing = <<>>
    /\ idx = 1
    /\ match = NoMatch

mainVars == <<args_tolerance_days, booktracker_reads, goodreads_reads,
              missing_from_goodreads, missing_from_booktracker>>

datesVars == <<event_a, event_b, tolerance, matched_ab, matched_ba>>

Init ==
    /\ pc = "direct_run"
    /\ \E st \in ListPairs(Universe, Universe) :
          /\ source_reads = st[1]
          /\ target_reads = st[2]
    /\ missing = <<>>
    /\ idx = 1
    /\ match = NoMatch
    /\ IdleMain
    /\ IdleDates

Running == {"direct_run", "first_run", "second_run"}

\* for read in source_reads: one iteration
Iterate ==
    /\ pc \in Running
    /\ idx <= Len(source_reads)
    /\ match' = find_matching_read(source_reads[idx], target_reads)
    /\ missing' = AfterIteration(missing, source_reads[idx], match')
    /\ idx' = idx + 1
    /\ UNCHANGED <<pc, source_reads, target_reads, mainVars, datesVars>>

\* return missing, to a caller that is not main
Return ==
    /\ pc = "direct_run"
    /\ idx > Len(source_reads)
    /\ pc' = "returned"
    /\ UNCHANGED <<source_reads, target_reads, missing, idx, match,
                   mainVars, datesVars>>

Next == Iterate \/ Return

Spec == Init /\ [][Next]_vars

----------------------------------------------------------------------------
(* find_missing_reads(X, X)                                                *)

InitSelf ==
    /\ pc = "direct_run"
    /\ \E X \in UNION {SeqsOfLen(Universe, n) : n \in 0..MaxReads} :
          /\ source_reads = X
          /\ target_reads = X
    /\ missing = <<>>
    /\ idx = 1
    /\ match = NoMatch
    /\ IdleMain
    /\ IdleDates

SpecSelf == InitSelf /\ [][Next]_vars

----------------------------------------------------------------------------
(* main                                                                    *)

InitMain ==
    /\ pc = "main"
    /\ args_tolerance_days \in ToleranceArgs
    /\ \E bg \in ListPairs(BooktrackerRows, GoodreadsRows) :
          /\ booktracker_reads = bg[1]
          /\ goodreads_reads = bg[2]
    /\ missing_from_goodreads = <<>>
    /\ missing_from_booktracker = <<>>
    /\ IdleLoop
    /\ IdleDates

\* the call find_missing_reads(source, target) made at position at
Call(at, source, target, to) ==
    /\ pc = at
    /\ source_reads' = source
    /\ target_reads' = target
    /\ missing' = <<>>
    /\ idx' = 1
    /\ match' = NoMatch
    /\ pc' = to
    /\ UNCHANGED <<mainVars, datesVars>>

\* missing_from_goodreads = find_missing_reads(booktracker_reads, goodreads_reads)
FirstRun == Call("main", booktracker_reads, goodreads_reads, "first_run")

ReturnFirst ==
    /\ pc = "first_run"
    /\ idx > Len(source_reads)
    /\ missing_from_goodreads' = missing
    /\ pc' = "compared_first"
    /\ UNCHANGED <<args_tolerance_days, booktracker_reads, goodreads_reads,
                   missing_from_booktracker, source_reads, target_reads,
                   missing, idx, match, datesVars>>

\* missing_from_booktracker = find_missing_reads(goodreads_reads, booktracker_reads)
SecondRun == Call("compared_first", goodreads_reads, booktracker_reads, "second_run")

ReturnSecond ==
    /\ pc = "second_run"
    /\ idx > Len(source_reads)
    /\ missing_from_booktracker' = missing
    /\ pc' = "done"
    /\ UNCHANGED <<args_tolerance_days, booktracker_reads, goodreads_reads,
                   missing_from_goodreads, source_reads, target_reads,
                   missing, idx, match, datesVars>>

NextMain == FirstRun \/ Iterate \/ ReturnFirst \/ SecondRun \/ ReturnSecond

SpecMain == InitMain /\ [][NextMain]_vars

----------------------------------------------------------------------------
(* dates_match, called on any two events                                   *)

DateChoices ==
    {NoDate, Date(1, 1), Date(1, 10), Date(1, 31), Date(2, 1), Date(2, 15),
     Date(3, 2), Date(3, 3)}

DatedEvents ==
    {ReadInstance(<<"A","b">>, <<"J","o">>, "", "978", r, s) :
        r \in DateChoices, s \in DateChoices}

ToleranceChoices == {-1, 0, 1, DefaultToleranceDays}

InitDates ==
    /\ pc = "dates_match"
    /\ event_a \in DatedEvents
    /\ event_b \in DatedEvents
    /\ tolerance \in ToleranceChoices
    /\ matched_ab = FALSE
    /\ matched_ba = FALSE
    /\ IdleMain
    /\ IdleLoop

CallDatesMatch ==
    /\ pc = "dates_match"
    /\ matched_ab' = dates_match(event_a, event_b, tolerance)
    /\ matched_ba' = dates_match(event_b, event_a, tolerance)
    /\ pc' = "dates_matched"
    /\ UNCHANGED <<event_a, event_b, tolerance, mainVars,
                   source_reads, target_reads, missing, idx, match>>

NextDates == CallDatesMatch

SpecDates == InitDates /\ [][NextDates]_vars

----------------------------------------------------------------------------
(* Properties                                                              *)

\* at least one iteration of the loop of find_missing_reads has run
Iterated == pc \in {"direct_run", "returned"} /\ idx > 1

\* the event of the last iteration
LastRead == source_reads[idx - 1]

Least(S) == CHOOSE j \in S : \A k \in S : j <= k

NoIdentity(e) ==
    e.title = <<>> /\ e.author = <<>> /\ e.isbn13 = "" /\ e.isbn10 = ""

NoPrefixRelation(x, y) == ~StartsWith(x, y) /\ ~StartsWith(y, x)

Undated(e) == e.read_date = NoDate /\ e.start_date = NoDate

OneDate(e) == (e.read_date = NoDate) # (e.start_date = NoDate)

StartOf(e) == IF e.start_date # NoDate THEN e.start_date ELSE e.read_date

EndOf(e) == IF e.read_date # NoDate THEN e.read_date ELSE e.start_date

Distance(x, y) == IF x <= y THEN y - x ELSE x - y

\* C1: find_missing_reads(source, target) is the subsequence of source, in
\* order and with duplicates, of the events for which find_matching_read
\* returns None; at every point of the loop this holds of the events seen so
\* far, and at the return every source event is in the list iff it has no
\* match.
C1_Partition ==
    pc \in {"direct_run", "returned"} =>
        /\ missing = SelectSeq(SubSeq(source_reads, 1, idx - 1),
                        LAMBDA e : find_matching_read(e, target_reads) = NoMatch)
        /\ pc = "returned" =>
             \A i \in DOMAIN source_reads :
                 (find_matching_read(source_reads[i], target_reads) = NoMatch)
                     <=> (source_reads[i] \in Range(missing))

\* a run that returned with the first of two source events matched and the
\* second one missing
C1_Witness ==
    /\ pc = "returned"
    /\ Len(source_reads) = 2
    /\ target_reads # <<>>
    /\ missing = <<source_reads[2]>>
    /\ source_reads[1] # source_reads[2]

\* every event has a non-empty isbn13 or a non-empty title and author
NonDegenerate(X) ==
    \A i \in DOMAIN X :
        X[i].isbn13 # "" \/ (X[i].title # <<>> /\ X[i].author # <<>>)

\* no event starts more than twice the default tolerance after it ends
NoLateStart(X) ==
    \A i \in DOMAIN X :
        (X[i].start_date # NoDate /\ X[i].read_date # NoDate) =>
            X[i].start_date - X[i].read_date <= 2 * DefaultToleranceDays

\* C2 as stated: find_missing_reads(X, X) is empty for every list X whose
\* events have a non-empty isbn13 or a non-empty title and author, whatever
\* their dates.
C2_Original ==
    (pc = "returned" /\ source_reads = target_reads /\ NonDegenerate(source_reads))
        => missing = <<>>

\* C2 as amended: find_missing_reads(X, X) is empty for every list X whose
\* events have a non-empty isbn13 or a non-empty title and author and do not
\* start more than 60 days (twice the default tolerance) after they end.
C2_Idempotent ==
    (/\ pc = "returned"
     /\ source_reads = target_reads
     /\ NonDegenerate(source_reads)
     /\ NoLateStart(source_reads))
        => missing = <<>>

\* find_missing_reads(X, X) returned for two different events, one of them
\* with a reading period
C2_Witness ==
    /\ pc = "returned"
    /\ source_reads = target_reads
    /\ Len(source_reads) = 2
    /\ source_reads[1] # source_reads[2]
    /\ NonDegenerate(source_reads)
    /\ NoLateStart(source_reads)
    /\ source_reads[1].start_date # NoDate
    /\ source_reads[1].read_date # NoDate
    /\ source_reads[2].isbn13 = ""
    /\ missing = <<>>

\* C3: dates_match(a, b, t) = dates_match(b, a, t) for all events a and b
\* and every tolerance t.
C3_Symmetric == pc = "dates_matched" => matched_ab = matched_ba

\* a reading period compared with a single earlier date, too far to match
C3_Witness ==
    /\ pc = "dates_matched"
    /\ event_a.start_date # NoDate
    /\ event_a.read_date # NoDate
    /\ event_a.start_date < event_a.read_date
    /\ event_b.start_date = NoDate
    /\ event_b.read_date # NoDate
    /\ event_b.read_date < event_a.start_date
    /\ ~matched_ab
    /\ ~matched_ba

\* the candidates of target_reads that the claim C4 has accepted for read:
\* identity and dates_match under the tolerance given on the command line
SuppliedHits(read) ==
    {j \in DOMAIN target_reads :
        /\ book_matches(read, target_reads[j])
        /\ dates_match(read, target_reads[j], args_tolerance_days)}

\* C4: in both find_missing_reads runs of main, a candidate whose identity
\* matches is accepted iff dates_match holds under the tolerance that
\* --tolerance-days supplies.
C4_SuppliedTolerance ==
    (pc \in {"first_run", "second_run"} /\ idx > 1) =>
        match = IF SuppliedHits(LastRead) = {} THEN NoMatch
                ELSE Least(SuppliedHits(LastRead))

\* C5: two events with empty title, author and ISBNs are never
\* identity-matched, and each such source event is in the missing list.
C5_EmptyTextNeverMatches ==
    pc = "returned" =>
        \A i \in DOMAIN source_reads :
            NoIdentity(source_reads[i]) =>
                /\ \A j \in DOMAIN target_reads :
                       NoIdentity(target_reads[j]) =>
                           ~book_matches(source_reads[i], target_reads[j])
                /\ source_reads[i] \in Range(missing)

\* C6: two events with empty isbn13 are not matched by the ISBN-13 rule, two
\* events with empty isbn10 are not matched by the ISBN-10 rule, and when
\* all four are empty and neither normalized title is a prefix of the other
\* the candidate is not the one find_matching_read returns.
C6_EmptyIsbnNeverMatches ==
    Iterated =>
        \A j \in DOMAIN target_reads :
            LET other == target_reads[j]
            IN  /\ (LastRead.isbn13 = "" /\ other.isbn13 = "")
                       => IdentityRule(LastRead, other) # 1
                /\ (LastRead.isbn10 = "" /\ other.isbn10 = "")
                       => IdentityRule(LastRead, other) # 2
                /\ (/\ LastRead.isbn13 = "" /\ other.isbn13 = ""
                    /\ LastRead.isbn10 = "" /\ other.isbn10 = ""
                    /\ NoPrefixRelation(KeyOf(LastRead)[4],
                                        KeyOf(other)[4]))
                       => match # j

\* an event without ISBN met a candidate without ISBN whose dates overlap
\* its own and whose title is unrelated, and was left unmatched
C6_Witness ==
    /\ Iterated
    /\ match = NoMatch
    /\ \E j \in DOMAIN target_reads :
          /\ LastRead.isbn13 = "" /\ target_reads[j].isbn13 = ""
          /\ LastRead.isbn10 = "" /\ target_reads[j].isbn10 = ""
          /\ LastRead.title # <<>>
          /\ target_reads[j].title # <<>>
          /\ NoPrefixRelation(KeyOf(LastRead)[4],
                              KeyOf(target_reads[j])[4])
          /\ dates_match(LastRead, target_reads[j], DefaultToleranceDays)

\* the value of dates_match that C7 states
C7_Expected(e1, e2, tol) ==
    IF Undated(e1) \/ Undated(e2) THEN TRUE
    ELSE /\ StartOf(e1) - tol <= EndOf(e2) + tol
         /\ StartOf(e2) - tol <= EndOf(e1) + tol

\* January 1st to January 10th, against the single date February 15th
C7_Example ==
    /\ event_a.start_date = Date(1, 1)
    /\ event_a.read_date = Date(1, 10)
    /\ OneDate(event_b)
    /\ StartOf(event_b) = Date(2, 15)

C8_Identity(e, c) ==
    \/ e.isbn13 # "" /\ e.isbn13 = c.isbn13
    \/ e.isbn10 # "" /\ e.isbn10 = c.isbn10
    \/ KeyOf(e)[3] = KeyOf(c)[3]
    \/ /\ AuthorOf(e) # <<>>
       /\ AuthorOf(e) = AuthorOf(c)
       /\ KeyOf(e)[4] # <<>>
       /\ KeyOf(c)[4] # <<>>
       /\ ~NoPrefixRelation(KeyOf(e)[4], KeyOf(c)[4])

C8_Hits(read) ==
    {j \in DOMAIN target_reads :
        /\ C8_Identity(read, target_reads[j])
        /\ dates_match(read, target_reads[j], DefaultToleranceDays)}

\* C8: find_matching_read returns the first candidate, in pool order, for
\* which an identity rule and dates_match hold, and None iff there is none.
C8_FirstCandidate ==
    Iterated =>
        /\ (C8_Hits(LastRead) = {}) <=> (match = NoMatch)
        /\ C8_Hits(LastRead) # {} => match = Least(C8_Hits(LastRead))

\* two different candidates both satisfy the test and the first is returned
C8_Witness ==
    /\ Iterated
    /\ Len(target_reads) = 2
    /\ target_reads[1] # target_reads[2]
    /\ C8_Hits(LastRead) = {1, 2}
    /\ match = 1

\* C9: two events with exactly one date each match iff the two dates differ
\* by at most tolerance_days days.
C9_WithinTolerance ==
    (pc = "dates_matched" /\ OneDate(event_a) /\ OneDate(event_b)) =>
        (matched_ab <=>
            Distance(StartOf(event_a), StartOf(event_b)) <= tolerance)

\* C10: the pairwise test is symmetric, and when find_matching_read(s, T)
\* returns t, find_matching_read(t, S) returns an event.
C10_CrossDirection ==
    Iterated =>
        /\ \A j \in DOMAIN target_reads :
               Accepts(LastRead, target_reads[j])
                   <=> Accepts(target_reads[j], LastRead)
        /\ match # NoMatch =>
               find_matching_read(target_reads[match], source_reads) # NoMatch

\* an event with a reading period matched, by the prefix rule, a candidate
\* with a longer title and a single date
C10_Witness ==
    /\ Iterated
    /\ match # NoMatch
    /\ IdentityRule(LastRead, target_reads[match]) = 4
    /\ Len(KeyOf(LastRead)[4])
           < Len(KeyOf(target_reads[match])[4])
    /\ LastRead.start_date # NoDate
    /\ target_reads[match].start_date = NoDate
    /\ find_matching_read(target_reads[match], source_reads) # NoMatch

====
